---- MODULE Spec2Model ----
(***************************************************************************)
(* Campaign tracker: the Flask request handlers of app.py (lazy PyMongo    *)
(* initialisation, the five repository routes, /debug) and the Streamlit   *)
(* views of streamlit_app.py, over one MongoDB collection "campaigns".     *)
(***************************************************************************)
EXTENDS Integers, FiniteSets, Sequences, TLC

VARIABLES
    shape,                 \* which program runs: "flask" (app.py) or "streamlit"
    app_config,            \* app.config.get("MONGO_URI"), NoneVal when unset
    mongo,                 \* module global mongo
    mongo_init_error,      \* module global mongo_init_error
    mongo_init_attempted,  \* module global mongo_init_attempted
    connects,              \* number of PyMongo(app) calls made so far
    pc,                    \* per request thread: position in the handler
    req,                   \* per request thread: the request being served
    m,                     \* per request thread: local m of get_collection
    resp,                  \* per request thread: the response last returned
    store,                 \* the campaigns collection: a set of documents
    usedIds,               \* every ObjectId the store has ever assigned
    st_pc,                 \* Streamlit script: position in the current run
    st_docs,               \* Streamlit: docs listed by alter_campaigns_ui
    st_in,                 \* Streamlit: the widget values the last run read
    st_out                 \* Streamlit: what the last script run showed

vars == <<shape, app_config, mongo, mongo_init_error, mongo_init_attempted, connects,
          pc, req, m, resp, store, usedIds, st_pc, st_docs, st_in, st_out>>

connVars == <<app_config, mongo, mongo_init_error, mongo_init_attempted, connects>>
flaskVars == <<pc, req, m, resp>>
stVars == <<st_pc, st_docs, st_in, st_out>>

(***************************************************************************)
(* Bounds of the exploration.                                              *)
(***************************************************************************)
MaxInserts == 2      \* identifiers the store assigns before insert_one fails
NumThreads == 2      \* request threads racing in the connection manager

Threads == 1..NumThreads
SeqThreads == {1}

NoneVal == "None"    \* Python's None

(***************************************************************************)
(* Values                                                                  *)
(***************************************************************************)
STATUS_OPTIONS == <<"Active", "Paused", "Completed">>

StatusSet == {STATUS_OPTIONS[i] : i \in 1..Len(STATUS_OPTIONS)}

ObjectIds == 1..MaxInserts

\* str(ObjectId): the 24-character hex form of an identifier
StrOid(i) == <<"hex", i>>

\* the <id> path segments requests arrive with: the hex form of an
\* identifier (assigned or not) or text that is no ObjectId
BadPathId == <<"not-an-objectid">>
NoPathId == <<>>
PathIds == {StrOid(i) : i \in ObjectIds} \cup {BadPathId}

\* bson.objectid.ObjectId(s): raises InvalidId unless s is 24 hex characters
ObjectIdValid(s) == Len(s) = 2 /\ s[1] = "hex"
ObjectIdOf(s) == s[2]

\* datetime.date.isoformat() on the dates the date picker offers
IsoFormat(d) ==
    CASE d = <<2024, 1, 1>> -> "2024-01-01"
      [] d = <<2024, 12, 31>> -> "2024-12-31"

Doc(i, n, c, d, s) == [id |-> i, name |-> n, client |-> c, startDate |-> d, status |-> s]

(***************************************************************************)
(* The store: pymongo Collection calls on "campaigns".  Each is one atomic *)
(* round trip; a failed round trip raises and leaves the store unchanged.  *)
(***************************************************************************)
\* a generator that hands out the smallest identifier free in the collection
NewObjectId_Reuse(used) ==
    CHOOSE i \in 1..(MaxInserts + 1) :
        /\ i \notin {x.id : x \in store}
        /\ \A j \in 1..(i - 1) : j \in {x.id : x \in store}

\* the ObjectId insert_one generates for a document without _id
NewObjectId(used) == Cardinality(used) + 1

\* insert_one(doc)
InsertOne(coll, used, n, c, d, s) == coll \cup {Doc(NewObjectId(used), n, c, d, s)}

\* delete_many with the filter lost once a document matches
DeleteOne_Many(coll, oid) == IF \E x \in coll : x.id = oid THEN {} ELSE coll

\* delete_one({'_id': oid})
DeleteOne(coll, oid) == {x \in coll : x.id # oid}

\* update_many with the filter lost once a document matches
UpdateOne_Many(coll, oid, s) ==
    IF \E x \in coll : x.id = oid THEN {[x EXCEPT !.status = s] : x \in coll} ELSE coll

\* update_one({'_id': oid}, {'$set': {'status': s}})
UpdateOne(coll, oid, s) ==
    {IF x.id = oid THEN [x EXCEPT !.status = s] ELSE x : x \in coll}

\* find(query): query is NoneVal for {} or a status for {'status': ...}
Find(coll, query) ==
    IF query = NoneVal THEN coll ELSE {x \in coll : x.status = query}

(***************************************************************************)
(* Requests and responses of the Flask shape                               *)
(***************************************************************************)
NoForm == [name |-> NoneVal, client |-> NoneVal, start_date |-> NoneVal,
           status |-> NoneVal, status_filter |-> NoneVal]

\* form fields a client may post; NoneVal is a field left out of the form
FormNames == {"Launch", NoneVal}
FormClients == {"Acme"}
FormDates == {"2024-01-01"}
FormStatuses == StatusSet \cup {NoneVal}
FormFilters == StatusSet \cup {"All", NoneVal}

AddRequests ==
    {[route |-> "add", id |-> NoPathId,
      form |-> [NoForm EXCEPT !.name = n, !.client = c, !.start_date = d, !.status = s]] :
        n \in FormNames, c \in FormClients, d \in FormDates, s \in FormStatuses}
DeleteRequests ==
    {[route |-> "delete", id |-> i, form |-> NoForm] : i \in PathIds}
UpdateRequests ==
    {[route |-> "update", id |-> i, form |-> [NoForm EXCEPT !.status = s]] :
        i \in PathIds, s \in FormStatuses}
ReportRequests ==
    {[route |-> "report", id |-> NoPathId, form |-> [NoForm EXCEPT !.status_filter = f]] :
        f \in FormFilters}
TableRequests == {[route |-> "table", id |-> NoPathId, form |-> NoForm]}
DebugRequests == {[route |-> "debug", id |-> NoPathId, form |-> NoForm]}

NoReq == [route |-> "none", id |-> NoPathId, form |-> NoForm]

\* requests raced against each other in the connection manager
RacingRequests == TableRequests \cup DebugRequests
AllRequests == TableRequests \cup ReportRequests \cup DebugRequests
                 \cup AddRequests \cup DeleteRequests \cup UpdateRequests

RepositoryRoutes == {"table", "add", "delete", "update", "report"}

NoResp == [code |-> 0, kind |-> "none", msg |-> NoneVal, rows |-> {}]

\* jsonify({"error": "Database not available: " + str(e)}), 500
DatabaseNotAvailable(e) ==
    [code |-> 500, kind |-> "DatabaseNotAvailable", msg |-> e, rows |-> {}]
\* jsonify({"error": str(e)}), 500
OperationError(e) ==
    [code |-> 500, kind |-> "OperationError", msg |-> e, rows |-> {}]
\* redirect(url_for('table'))
RedirectToTable == [code |-> 302, kind |-> "redirect", msg |-> NoneVal, rows |-> {}]
\* render_template(..., campaigns=cursor)
Rendered(docs) == [code |-> 200, kind |-> "render", msg |-> NoneVal, rows |-> docs]
\* /debug: jsonify({..., "mongo_init_ok": ..., "mongo_init_error": ...}), 200
DebugInfo(ok, err) ==
    [code |-> 200, kind |-> IF ok THEN "debug_ok" ELSE "debug_not_ok", msg |-> err, rows |-> {}]

(***************************************************************************)
(* What a Streamlit script run leaves on the page                          *)
(***************************************************************************)
StShow(k, docs) == [kind |-> k, rows |-> docs]
StNothing == StShow("none", {})
\* the widgets a run reads: the add form, the pressed row's key and
\* selectbox, the report's filter
NoInput == [name |-> NoneVal, client |-> NoneVal, start_date |-> NoneVal,
            status |-> NoneVal, cid |-> NoPathId, status_filter |-> NoneVal]
\* an exception no code catches: Streamlit prints the raw traceback
StUncaught == StShow("uncaught_exception", {})

(***************************************************************************)
(* Module start-up: MONGO_URI handling and the lazy-init globals           *)
(***************************************************************************)
\* the process environment: is MONGO_URI set, is FLASK_ENV "development"
Environments == [MONGO_URI : {NoneVal, "mongodb+srv://cluster"}, development : BOOLEAN]

\* lines 19-26: the environment's URI, else the localhost URI in development
ConfiguredUri(env) ==
    IF env.MONGO_URI # NoneVal THEN env.MONGO_URI
    ELSE IF env.development THEN "mongodb://localhost:27017/campaign_db"
    ELSE NoneVal

\* documents a store may already hold when the process starts
InitialStores == {{}, {Doc(1, "Launch", "Acme", "2024-01-01", "Active")}}

Init ==
    /\ shape \in {"flask", "streamlit"}
    /\ IF shape = "flask"
         THEN \E env \in Environments : app_config = ConfiguredUri(env)
         ELSE app_config = NoneVal
    /\ mongo = NoneVal
    /\ mongo_init_error = NoneVal
    /\ mongo_init_attempted = FALSE
    /\ connects = 0
    /\ pc = [t \in Threads |-> "idle"]
    /\ req = [t \in Threads |-> NoReq]
    /\ m = [t \in Threads |-> NoneVal]
    /\ resp = [t \in Threads |-> NoResp]
    /\ store \in InitialStores
    /\ usedIds = {x.id : x \in store}
    /\ st_pc = "idle"
    /\ st_docs = {}
    /\ st_in = NoInput
    /\ st_out = StNothing

(***************************************************************************)
(* A request arrives and its handler starts: every repository handler      *)
(* begins with get_collection(), /debug with try_init_mongo_once().        *)
(***************************************************************************)
StartRequest(t, requests) ==
    /\ shape = "flask"
    /\ pc[t] = "idle"
    /\ \E r \in requests : req' = [req EXCEPT ![t] = r]
    /\ pc' = [pc EXCEPT ![t] = "init_check"]
    /\ resp' = [resp EXCEPT ![t] = NoResp]
    /\ m' = [m EXCEPT ![t] = NoneVal]
    /\ UNCHANGED <<shape, connVars, store, usedIds, stVars>>

\* where try_init_mongo_once() returns to
AfterInit(t) == IF req[t].route = "debug" THEN "debug_ret" ELSE "get_mongo"

\* line 40: if mongo_init_attempted: return
InitCheck(t) ==
    /\ pc[t] = "init_check"
    /\ pc' = [pc EXCEPT ![t] = IF mongo_init_attempted THEN AfterInit(t) ELSE "init_mark"]
    /\ UNCHANGED <<shape, connVars, req, m, resp, store, usedIds, stVars>>

\* line 42: mongo_init_attempted = True
InitMark(t) ==
    /\ pc[t] = "init_mark"
    /\ mongo_init_attempted' = TRUE
    /\ pc' = [pc EXCEPT ![t] = "init_uri"]
    /\ UNCHANGED <<shape, app_config, mongo, mongo_init_error, connects, req, m, resp,
                   store, usedIds, stVars>>

\* try_init_mongo_once without its MONGO_URI check
InitUri_NoUriCheck(t) ==
    /\ pc[t] = "init_uri"
    /\ pc' = [pc EXCEPT ![t] = "init_connect"]
    /\ UNCHANGED <<shape, connVars, req, m, resp, store, usedIds, stVars>>

\* lines 44-47: no URI configured: record the error and return
InitUri(t) ==
    /\ pc[t] = "init_uri"
    /\ IF app_config = NoneVal
         THEN /\ mongo_init_error' = "MONGO_URI not set"
              /\ pc' = [pc EXCEPT ![t] = AfterInit(t)]
         ELSE /\ pc' = [pc EXCEPT ![t] = "init_connect"]
              /\ UNCHANGED mongo_init_error
    /\ UNCHANGED <<shape, app_config, mongo, mongo_init_attempted, connects, req, m, resp,
                   store, usedIds, stVars>>

\* what PyMongo(app) may do: give a client with a database, give a client
\* whose .db is None (a URI without a database name), or raise
ConnectOutcomes == {"PyMongo", "PyMongoNoDb", "raise"}

\* lines 49-60 and 68-72: mongo = PyMongo(app), or the except clause
InitConnect(t) ==
    /\ pc[t] = "init_connect"
    /\ connects' = connects + 1
    /\ \E outcome \in ConnectOutcomes :
         IF outcome = "raise"
           THEN /\ mongo' = NoneVal
                /\ mongo_init_error' = "ConnectionError"
                /\ pc' = [pc EXCEPT ![t] = AfterInit(t)]
           ELSE /\ mongo' = outcome
                /\ pc' = [pc EXCEPT ![t] = "init_dbcheck"]
                /\ UNCHANGED mongo_init_error
    /\ UNCHANGED <<shape, app_config, mongo_init_attempted, req, m, resp, store, usedIds, stVars>>

\* getattr(mongo, "db", None) is None
DbMissing(client) == client # "PyMongo"

\* lines 62-64, 66-67: the explicit None check on the global's .db
InitDbCheck(t) ==
    /\ pc[t] = "init_dbcheck"
    /\ IF DbMissing(mongo)
         THEN /\ mongo_init_error' = "PyMongo initialized but .db missing"
              /\ pc' = [pc EXCEPT ![t] = "init_dbnone"]
         ELSE /\ pc' = [pc EXCEPT ![t] = AfterInit(t)]
              /\ UNCHANGED mongo_init_error
    /\ UNCHANGED <<shape, app_config, mongo, mongo_init_attempted, connects, req, m, resp,
                   store, usedIds, stVars>>

\* line 65: mongo = None
InitDbNone(t) ==
    /\ pc[t] = "init_dbnone"
    /\ mongo' = NoneVal
    /\ pc' = [pc EXCEPT ![t] = AfterInit(t)]
    /\ UNCHANGED <<shape, app_config, mongo_init_error, mongo_init_attempted, connects,
                   req, m, resp, store, usedIds, stVars>>

\* lines 74-76 and 79: m = get_mongo() reads the global after the init call
GetMongo(t) ==
    /\ pc[t] = "get_mongo"
    /\ m' = [m EXCEPT ![t] = mongo]
    /\ pc' = [pc EXCEPT ![t] = "get_collection"]
    /\ UNCHANGED <<shape, connVars, req, resp, store, usedIds, stVars>>

\* the text after "Mongo not initialized: "
InitErrorText == IF mongo_init_error # NoneVal THEN mongo_init_error ELSE "unknown"

\* lines 80-82, and the handler's first except clause around it
GetCollection(t) ==
    /\ pc[t] = "get_collection"
    /\ IF m[t] = NoneVal
         THEN /\ resp' = [resp EXCEPT ![t] = DatabaseNotAvailable(InitErrorText)]
              /\ pc' = [pc EXCEPT ![t] = "idle"]
         ELSE IF m[t] = "PyMongoNoDb"
         THEN /\ resp' = [resp EXCEPT ![t] = DatabaseNotAvailable("AttributeError")]
              /\ pc' = [pc EXCEPT ![t] = "idle"]
         ELSE /\ pc' = [pc EXCEPT ![t] = "op"]
              /\ UNCHANGED resp
    /\ UNCHANGED <<shape, connVars, req, m, store, usedIds, stVars>>

\* lines 87-102: /debug reports the globals after the init call
DebugReturn(t) ==
    /\ pc[t] = "debug_ret"
    /\ resp' = [resp EXCEPT ![t] = DebugInfo(mongo # NoneVal, mongo_init_error)]
    /\ pc' = [pc EXCEPT ![t] = "idle"]
    /\ UNCHANGED <<shape, connVars, req, m, store, usedIds, stVars>>

(***************************************************************************)
(* The repository handlers, from the point where coll is in hand.  A store *)
(* round trip either completes or raises; insert_one also raises once the  *)
(* store has taken MaxInserts documents.                                   *)
(***************************************************************************)
RoundTrips == {"ok", "raise"}

\* request.form.get(key, default)
FormGet(form, key, default) == IF form[key] = NoneVal THEN default ELSE form[key]

\* lines 130-136: coll.find() rendered by table.html
Table(t) ==
    /\ pc[t] = "op" /\ req[t].route = "table"
    /\ \E trip \in RoundTrips :
         resp' = [resp EXCEPT ![t] =
                    IF trip = "ok" THEN Rendered(Find(store, NoneVal))
                    ELSE OperationError("StoreError")]
    /\ pc' = [pc EXCEPT ![t] = "idle"]
    /\ UNCHANGED <<shape, connVars, req, m, store, usedIds, stVars>>

\* lines 147-163: insert_one of the four form fields, taken verbatim
AddCampaign(t) ==
    /\ pc[t] = "op" /\ req[t].route = "add"
    /\ \E trip \in RoundTrips :
         IF trip = "ok" /\ Cardinality(usedIds) < MaxInserts
           THEN /\ store' = InsertOne(store, usedIds,
                                      FormGet(req[t].form, "name", NoneVal),
                                      FormGet(req[t].form, "client", NoneVal),
                                      FormGet(req[t].form, "start_date", NoneVal),
                                      FormGet(req[t].form, "status", NoneVal))
                /\ usedIds' = usedIds \cup {NewObjectId(usedIds)}
                /\ resp' = [resp EXCEPT ![t] = RedirectToTable]
           ELSE /\ resp' = [resp EXCEPT ![t] = OperationError("StoreError")]
                /\ UNCHANGED <<store, usedIds>>
    /\ pc' = [pc EXCEPT ![t] = "idle"]
    /\ UNCHANGED <<shape, connVars, req, m, stVars>>

\* lines 174-181: ObjectId(id), then delete_one, in one try block
DeleteCampaign(t) ==
    /\ pc[t] = "op" /\ req[t].route = "delete"
    /\ IF ~ObjectIdValid(req[t].id)
         THEN /\ resp' = [resp EXCEPT ![t] = OperationError("InvalidId")]
              /\ UNCHANGED store
         ELSE \E trip \in RoundTrips :
                IF trip = "ok"
                  THEN /\ store' = DeleteOne(store, ObjectIdOf(req[t].id))
                       /\ resp' = [resp EXCEPT ![t] = RedirectToTable]
                  ELSE /\ resp' = [resp EXCEPT ![t] = OperationError("StoreError")]
                       /\ UNCHANGED store
    /\ pc' = [pc EXCEPT ![t] = "idle"]
    /\ UNCHANGED <<shape, connVars, req, m, usedIds, stVars>>

\* lines 192-203: ObjectId(id), then update_one of status, in one try block
UpdateCampaign(t) ==
    /\ pc[t] = "op" /\ req[t].route = "update"
    /\ IF ~ObjectIdValid(req[t].id)
         THEN /\ resp' = [resp EXCEPT ![t] = OperationError("InvalidId")]
              /\ UNCHANGED store
         ELSE \E trip \in RoundTrips :
                IF trip = "ok"
                  THEN /\ store' = UpdateOne(store, ObjectIdOf(req[t].id),
                                             FormGet(req[t].form, "status", NoneVal))
                       /\ resp' = [resp EXCEPT ![t] = RedirectToTable]
                  ELSE /\ resp' = [resp EXCEPT ![t] = OperationError("StoreError")]
                       /\ UNCHANGED store
    /\ pc' = [pc EXCEPT ![t] = "idle"]
    /\ UNCHANGED <<shape, connVars, req, m, usedIds, stVars>>

\* /report with the filter branch lost
ReportQuery_NoFilter(status_filter) == NoneVal

\* lines 215-220: the query /report runs for a status_filter
ReportQuery(status_filter) == IF status_filter = "All" THEN NoneVal ELSE status_filter

\* lines 214-226: find() or find({'status': status_filter}) rendered by report.html
Report(t) ==
    /\ pc[t] = "op" /\ req[t].route = "report"
    /\ \E trip \in RoundTrips :
         resp' = [resp EXCEPT ![t] =
                    IF trip = "ok"
                      THEN Rendered(Find(store,
                               ReportQuery(FormGet(req[t].form, "status_filter", "All"))))
                      ELSE OperationError("StoreError")]
    /\ pc' = [pc EXCEPT ![t] = "idle"]
    /\ UNCHANGED <<shape, connVars, req, m, store, usedIds, stVars>>

(***************************************************************************)
(* The Streamlit shape: one script run per interaction, no try/except.     *)
(***************************************************************************)
StNames == {"Launch", ""}
StClients == {"Acme", ""}
StDates == {<<2024, 12, 31>>}
StFilters == {"All"} \cup StatusSet

\* lines 31-43: the submitted form of add_campaign_ui
StAddCampaign ==
    /\ shape = "streamlit" /\ st_pc = "idle"
    /\ \E n \in StNames, c \in StClients, d \in StDates, s \in StatusSet, trip \in RoundTrips :
         /\ st_in' = [NoInput EXCEPT !.name = n, !.client = c, !.start_date = d, !.status = s]
         /\ IF n = "" \/ c = ""
              THEN /\ st_out' = StShow("warning_fill_in", {})
                   /\ UNCHANGED <<store, usedIds>>
              ELSE IF trip = "ok" /\ Cardinality(usedIds) < MaxInserts
              THEN /\ store' = InsertOne(store, usedIds, n, c, IsoFormat(d), s)
                   /\ usedIds' = usedIds \cup {NewObjectId(usedIds)}
                   /\ st_out' = StShow("success_added", {})
              ELSE /\ st_out' = StUncaught
                   /\ UNCHANGED <<store, usedIds>>
    /\ UNCHANGED <<shape, connVars, flaskVars, st_pc, st_docs>>

\* lines 47-71: alter_campaigns_ui lists the collection and draws one
\* expander per document, keyed by cid = str(d["_id"])
StAlterList ==
    /\ shape = "streamlit" /\ st_pc = "idle"
    /\ st_in' = NoInput
    /\ \E trip \in RoundTrips :
         IF trip = "raise"
           THEN /\ st_out' = StUncaught
                /\ UNCHANGED <<st_pc, st_docs>>
           ELSE IF Find(store, NoneVal) = {}
           THEN /\ st_out' = StShow("info_no_campaigns", {})
                /\ UNCHANGED <<st_pc, st_docs>>
           ELSE /\ st_out' = StShow("table", Find(store, NoneVal))
                /\ st_docs' = {StrOid(d.id) : d \in Find(store, NoneVal)}
                /\ st_pc' = "alter_loop"
    /\ UNCHANGED <<shape, connVars, flaskVars, store, usedIds>>

\* lines 85-87: the Update button of one listed document was pressed
StUpdate ==
    /\ st_pc = "alter_loop"
    /\ \E cid \in st_docs, new_status \in StatusSet, trip \in RoundTrips :
         /\ st_in' = [NoInput EXCEPT !.cid = cid, !.status = new_status]
         /\ IF trip = "ok"
              THEN /\ store' = UpdateOne(store, ObjectIdOf(cid), new_status)
                   /\ st_out' = StShow("success_updated", {})
              ELSE /\ st_out' = StUncaught
                   /\ UNCHANGED store
    /\ st_pc' = "idle"
    /\ st_docs' = {}
    /\ UNCHANGED <<shape, connVars, flaskVars, usedIds>>

\* lines 88-90: the Delete button of one listed document was pressed
StDelete ==
    /\ st_pc = "alter_loop"
    /\ \E cid \in st_docs, trip \in RoundTrips :
         /\ st_in' = [NoInput EXCEPT !.cid = cid]
         /\ IF trip = "ok"
              THEN /\ store' = DeleteOne(store, ObjectIdOf(cid))
                   /\ st_out' = StShow("warning_deleted", {})
              ELSE /\ st_out' = StUncaught
                   /\ UNCHANGED store
    /\ st_pc' = "idle"
    /\ st_docs' = {}
    /\ UNCHANGED <<shape, connVars, flaskVars, usedIds>>

\* lines 70-90 with no button pressed: the run ends
StAlterDone ==
    /\ st_pc = "alter_loop"
    /\ st_pc' = "idle"
    /\ st_docs' = {}
    /\ UNCHANGED <<shape, connVars, flaskVars, store, usedIds, st_in, st_out>>

\* line 96: the query of report_ui
StReportQuery(status_filter) == IF status_filter = "All" THEN NoneVal ELSE status_filter

\* lines 93-113: report_ui
StReport ==
    /\ shape = "streamlit" /\ st_pc = "idle"
    /\ \E status_filter \in StFilters, trip \in RoundTrips :
         /\ st_in' = [NoInput EXCEPT !.status_filter = status_filter]
         /\ st_out' = IF trip = "raise" THEN StUncaught
                      ELSE IF Find(store, StReportQuery(status_filter)) = {}
                      THEN StShow("info_no_match", {})
                      ELSE StShow("report", Find(store, StReportQuery(status_filter)))
    /\ UNCHANGED <<shape, connVars, flaskVars, store, usedIds, st_pc, st_docs>>

(***************************************************************************)
(* Specifications                                                          *)
(***************************************************************************)
ConnectionSteps(t) ==
    \/ InitCheck(t) \/ InitMark(t) \/ InitUri(t) \/ InitConnect(t)
    \/ InitDbCheck(t) \/ InitDbNone(t) \/ GetMongo(t) \/ GetCollection(t)
    \/ DebugReturn(t)

Handlers(t) ==
    \/ Table(t) \/ AddCampaign(t) \/ DeleteCampaign(t) \/ UpdateCampaign(t) \/ Report(t)

Streamlit ==
    \/ StAddCampaign \/ StAlterList \/ StUpdate \/ StDelete \/ StAlterDone \/ StReport

\* either program: app.py serving one request at a time, or the Streamlit
\* script re-run per interaction
Next ==
    \/ \E t \in SeqThreads : StartRequest(t, AllRequests) \/ ConnectionSteps(t) \/ Handlers(t)
    \/ Streamlit

Spec == Init /\ [][Next]_vars

\* the connection manager under racing requests to the reading routes
ConnNext ==
    \E t \in Threads :
        \/ StartRequest(t, RacingRequests) \/ ConnectionSteps(t)
        \/ Table(t)

ConnInit == Init /\ shape = "flask"

ConnSpec == ConnInit /\ [][ConnNext]_vars

(***************************************************************************)
(* Vocabulary of the properties                                            *)
(***************************************************************************)
Ids(coll) == {x.id : x \in coll}

\* thread t has finished a request and its response is on hand
Completed(t) == pc[t] = "idle" /\ resp[t] # NoResp

\* this step is the store call of thread t's handler
OpStep(t, route) == pc[t] = "op" /\ req[t].route = route /\ pc'[t] = "idle"

\* a failed round trip, the only failure a well-formed call may report
RoundTripFailure == OperationError("StoreError")

\* thread t is past its call of try_init_mongo_once()
InitCallReturned(t) ==
    \/ pc[t] \in {"get_mongo", "get_collection", "op", "debug_ret"}
    \/ Completed(t)

InsideInit(t) == pc[t] \in {"init_mark", "init_uri", "init_connect", "init_dbcheck", "init_dbnone"}

(***************************************************************************)
(* C1: racing callers of get_collection()/try_init_mongo_once() are        *)
(* serialized: at most one PyMongo(app) attempt is made, no caller is told *)
(* "Mongo not initialized: unknown" (mongo None, no error recorded), and   *)
(* all finished /campaigns callers agree on whether the store is there.    *)
(***************************************************************************)
C1_InitSerialized ==
    /\ connects <= 1
    /\ \A t \in Threads : resp[t] # DatabaseNotAvailable("unknown")
    /\ \A t, u \in Threads :
         (Completed(t) /\ Completed(u) /\ req[t].route = "table" /\ req[u].route = "table")
            => ((resp[t].kind = "DatabaseNotAvailable") <=> (resp[u].kind = "DatabaseNotAvailable"))

(***************************************************************************)
(* C2: once a call of try_init_mongo_once() has returned, the outcome is   *)
(* terminal: no step makes another connection attempt or changes mongo or  *)
(* mongo_init_error; and no attempt precedes the first call.               *)
(***************************************************************************)
C2_MemoizedOnce ==
    /\ [](~mongo_init_attempted =>
            (connects = 0 /\ mongo = NoneVal /\ mongo_init_error = NoneVal))
    /\ [][(\E t \in Threads : InitCallReturned(t))
            => UNCHANGED <<connects, mongo, mongo_init_error>>]_vars

(***************************************************************************)
(* C5: get_collection() has three outcomes: the handle (URI set, usable    *)
(* database), NotConfigured (no URI, no attempt), ConnectionFailed (URI    *)
(* set, attempt raised or gave no database); once no caller is inside the  *)
(* initialisation, exactly one of "handle present" and "error recorded"    *)
(* holds.                                                                  *)
(***************************************************************************)
C5_ThreeOutcomes ==
    /\ \A t \in Threads :
         (Completed(t) /\ req[t].route \in RepositoryRoutes
            /\ resp[t].kind = "DatabaseNotAvailable")
         => IF app_config = NoneVal
              THEN resp[t].msg = "MONGO_URI not set" /\ connects = 0
              ELSE resp[t].msg \in {"ConnectionError", "PyMongo initialized but .db missing"}
    /\ (mongo_init_attempted /\ \A t \in Threads : ~InsideInit(t))
         => ((mongo # NoneVal) <=> (mongo_init_error = NoneVal))

(***************************************************************************)
(* C3: delete or update with an identifier that is no ObjectId answers     *)
(* with the error kind InvalidIdentifier, distinct from a store failure.   *)
(***************************************************************************)
C3_InvalidIdentifierKind ==
    \A t \in Threads :
        (Completed(t) /\ req[t].route \in {"delete", "update"} /\ ~ObjectIdValid(req[t].id))
           => resp[t].kind = "InvalidIdentifier"

(***************************************************************************)
(* C10: in both shapes a failing store call is turned into an error        *)
(* response at the presentation boundary: a Flask handler answers 500 with *)
(* an error body, a Streamlit run shows a warning, and no raw exception    *)
(* escapes.                                                                *)
(***************************************************************************)
C10_FailuresCaught ==
    /\ \A t \in Threads : Completed(t) => resp[t].code \in {200, 302, 500}
    /\ st_out # StUncaught

(***************************************************************************)
(* C4: with no connection string configured every repository request is   *)
(* answered 500 "Database not available", no PyMongo(app) attempt is made, *)
(* no handler reaches its store call, the collection stays as it was, and  *)
(* an idle worker can take the next request.                               *)
(***************************************************************************)
C4_NotConfigured ==
    (shape = "flask" /\ app_config = NoneVal) =>
        /\ connects = 0
        /\ mongo = NoneVal
        /\ store \in InitialStores
        /\ \A t \in Threads :
             /\ pc[t] \notin {"init_connect", "init_dbcheck", "init_dbnone", "op"}
             /\ (Completed(t) /\ req[t].route \in RepositoryRoutes)
                   => resp[t].code = 500 /\ resp[t].kind = "DatabaseNotAvailable"
             /\ pc[t] = "idle" => ENABLED StartRequest(t, AllRequests)

C4_Witness ==
    /\ shape = "flask" /\ app_config = NoneVal
    /\ \E t \in Threads :
         /\ Completed(t) /\ req[t].route = "update"
         /\ resp[t] = DatabaseNotAvailable("MONGO_URI not set")

(***************************************************************************)
(* C6: identifiers are unique in the collection and only insertion makes   *)
(* one; a successful add puts in exactly one new document, with the four   *)
(* fields as given and an identifier never assigned before (not even to a  *)
(* document since deleted), and leaves the documents already there alone.  *)
(***************************************************************************)
UniqueIds == \A x, y \in store : x.id = y.id => x = y

\* b is a plus one document with fields n, c, d, s and a never-used id
AddEffect(a, b, used, n, c, d, s) ==
    /\ a \subseteq b
    /\ Cardinality(b \ a) = 1
    /\ \A x \in b \ a :
         /\ x.id \notin used /\ x.id \notin Ids(a)
         /\ x.name = n /\ x.client = c /\ x.startDate = d /\ x.status = s

C6_AddStep ==
    /\ \A t \in Threads :
         OpStep(t, "add") =>
            IF resp'[t] = RedirectToTable
              THEN AddEffect(store, store', usedIds,
                             req[t].form.name, req[t].form.client,
                             req[t].form.start_date, req[t].form.status)
              ELSE store' = store
    /\ (st_pc = "idle" /\ st_out'.kind = "success_added") =>
            AddEffect(store, store', usedIds,
                      st_in'.name, st_in'.client, IsoFormat(st_in'.start_date), st_in'.status)
    /\ Ids(store') \ Ids(store) \subseteq usedIds' \ usedIds
    /\ usedIds \subseteq usedIds'

C6_UniqueFreshIds == []UniqueIds /\ [][C6_AddStep]_vars

C6_Witness ==
    /\ \E t \in Threads :
         /\ Completed(t) /\ req[t].route = "add" /\ resp[t] = RedirectToTable
         /\ \E x \in store : x.id = 2 /\ x.name = req[t].form.name
                               /\ x.status = req[t].form.status
    /\ 1 \in usedIds /\ 1 \notin Ids(store)

(***************************************************************************)
(* C7: a status update that goes through changes only the status field of  *)
(* the document with that id, to exactly the new status: same documents,   *)
(* same count, every other field and every other document as before; with *)
(* no matching document it still answers with the redirect (a failed round *)
(* trip apart) and the collection is unchanged.                            *)
(***************************************************************************)
UpdateFrame(a, b, oid, s) ==
    /\ Cardinality(b) = Cardinality(a)
    /\ Ids(b) = Ids(a)
    /\ \A x \in a, y \in b :
         x.id = y.id =>
            /\ y.name = x.name /\ y.client = x.client /\ y.startDate = x.startDate
            /\ IF x.id = oid THEN y.status = s ELSE y = x
    /\ oid \notin Ids(a) => b = a

C7_UpdateStep ==
    /\ \A t \in Threads :
         (OpStep(t, "update") /\ ObjectIdValid(req[t].id)) =>
            /\ resp'[t] \in {RedirectToTable, RoundTripFailure}
            /\ IF resp'[t] = RedirectToTable
                 THEN UpdateFrame(store, store', ObjectIdOf(req[t].id), req[t].form.status)
                 ELSE store' = store
    /\ (st_pc = "alter_loop" /\ st_out'.kind = "success_updated") =>
            UpdateFrame(store, store', ObjectIdOf(st_in'.cid), st_in'.status)

C7_UpdateOnlyStatus == [][C7_UpdateStep]_vars

C7_Witness ==
    \E t \in Threads :
        /\ Completed(t) /\ req[t].route = "update" /\ resp[t] = RedirectToTable
        /\ req[t].form.status = "Paused"
        /\ Cardinality(store) = 2
        /\ \E x \in store : x.id = ObjectIdOf(req[t].id) /\ x.status = "Paused"
        /\ \E x \in store : x.id # ObjectIdOf(req[t].id) /\ x.status # "Paused"

(***************************************************************************)
(* C8: a delete that goes through leaves no document with that id and      *)
(* every other document as it was; deleting an id that matches nothing     *)
(* (a second delete included) answers with the redirect just the same (a   *)
(* failed round trip apart) and leaves the collection unchanged.           *)
(***************************************************************************)
DeleteFrame(a, b, oid) ==
    /\ oid \notin Ids(b)
    /\ b \subseteq a
    /\ \A x \in a : x.id # oid => x \in b
    /\ oid \notin Ids(a) => b = a

C8_DeleteStep ==
    /\ \A t \in Threads :
         (OpStep(t, "delete") /\ ObjectIdValid(req[t].id)) =>
            /\ resp'[t] \in {RedirectToTable, RoundTripFailure}
            /\ IF resp'[t] = RedirectToTable
                 THEN DeleteFrame(store, store', ObjectIdOf(req[t].id))
                 ELSE store' = store
    /\ (st_pc = "alter_loop" /\ st_out'.kind = "warning_deleted") =>
            DeleteFrame(store, store', ObjectIdOf(st_in'.cid))

C8_DeleteIdempotent == [][C8_DeleteStep]_vars

\* a repeated delete: the id was assigned once, is gone, and the delete
\* just answered with the redirect while another document stays
C8_Witness ==
    \E t \in Threads :
        /\ Completed(t) /\ req[t].route = "delete" /\ resp[t] = RedirectToTable
        /\ ObjectIdOf(req[t].id) \in usedIds
        /\ ObjectIdOf(req[t].id) \notin Ids(store)
        /\ store # {}

(***************************************************************************)
(* C9: a listing with a status filter other than "All" shows exactly the   *)
(* documents with that status; with "All" or no filter it shows the whole  *)
(* collection as it is at that moment; listing changes nothing.            *)
(***************************************************************************)
Listing(coll, f) ==
    IF f \in {"All", NoneVal} THEN coll ELSE {x \in coll : x.status = f}

C9_ListStep ==
    /\ \A t \in Threads :
         /\ OpStep(t, "report") =>
              /\ store' = store
              /\ resp'[t] \in {Rendered(Listing(store, req[t].form.status_filter)),
                               RoundTripFailure}
         /\ OpStep(t, "table") =>
              /\ store' = store
              /\ resp'[t] \in {Rendered(store), RoundTripFailure}
    /\ (st_pc = "idle" /\ st_in'.status_filter # NoneVal /\ st_out' # StUncaught) =>
         /\ store' = store
         /\ st_out'.rows = Listing(store, st_in'.status_filter)

C9_FilteredListing == [][C9_ListStep]_vars

C9_Witness ==
    \E t \in Threads :
        /\ Completed(t) /\ req[t].route = "report"
        /\ req[t].form.status_filter = "Completed"
        /\ resp[t].kind = "render"
        /\ resp[t].rows # {} /\ resp[t].rows # store

====
